---- MODULE Spec2Model ----
(***************************************************************************)
(* Model of the gantt repository's HTTP service:                           *)
(*   - src/unnamed/part_002 (router.js of the report server):              *)
(*     splitCsvLine, parseCsvText, walkCsvFiles, loadCombinedCsvs,         *)
(*     handleApiReports, handleRequest;                                    *)
(*   - src/router.js and src/unnamed/part_000 (server.js): the task store  *)
(*     (GET/PUT /api/tasks) and the column inspection (/api/columns).      *)
(* Strings are sequences of one-character strings, so that trimming,       *)
(* splitting, prefix tests and path normalisation are computed.            *)
(***************************************************************************)
EXTENDS Naturals, Sequences, FiniteSets, TLC

VARIABLES
  line,      \* splitCsvLine: the input line
  fields,    \* splitCsvLine: the returned field list, or NotYet
  aggFs,     \* reports: the file system under the request's baseDir
  aggReq,    \* reports: the POST /api/reports request (body)
  aggResp,   \* reports: the responses sent on the request (sequence)
  impl,      \* which server runs: "router" (src/router.js) or "server" (part_000)
  flow,      \* columns: the flow query parameter
  csvText,   \* columns: the content of data/x.csv
  readPath,  \* columns: the paths handed to fs.readFile (sequence)
  colResp,   \* columns: the responses sent on the request (sequence)
  file,      \* tasks: content of projectTasks.json, or NoFile
  reqs,      \* tasks: the requests received so far (sequence of records)
  crashed,   \* tasks: the process died of an uncaught exception
  wrote,     \* tasks: the requests that called fs.writeFile (set of indices)
  file0      \* tasks: content of projectTasks.json when the server started

splitVars == <<line, fields>>
aggVars   == <<aggFs, aggReq, aggResp>>
colVars   == <<flow, csvText, readPath, colResp>>
taskVars  == <<file, reqs, crashed, wrote, file0>>
vars      == <<line, fields, aggFs, aggReq, aggResp, impl, flow, csvText,
               readPath, colResp, file, reqs, crashed, wrote, file0>>

NotYet == "NotYet"
NoFile == [exists |-> FALSE, txt |-> <<>>]
FileOf(txt) == [exists |-> TRUE, txt |-> txt]

(***************************************************************************)
(* Strings                                                                 *)
(***************************************************************************)
QUOTE == "\""
COMMA == ","
SP    == " "
LF    == "\n"
CR    == "\r"

\* The characters String.prototype.trim removes (those of the alphabets used).
IsSpace(ch) == ch \in {SP, LF, CR}

\* All strings of length at most n over the alphabet.
StringsUpTo(alphabet, n) == UNION {[1..k -> alphabet] : k \in 0..n}

RECURSIVE TrimLeft(_)
TrimLeft(s) ==
  IF s # <<>> /\ IsSpace(Head(s)) THEN TrimLeft(Tail(s)) ELSE s

RECURSIVE TrimRight(_)
TrimRight(s) ==
  IF s # <<>> /\ IsSpace(s[Len(s)]) THEN TrimRight(SubSeq(s, 1, Len(s) - 1)) ELSE s

\* String.prototype.trim
Trim(s) == TrimRight(TrimLeft(s))

\* String.prototype.startsWith
StartsWith(s, p) == Len(p) <= Len(s) /\ SubSeq(s, 1, Len(p)) = p

\* String.prototype.endsWith
EndsWith(s, p) == Len(p) <= Len(s) /\ SubSeq(s, Len(s) - Len(p) + 1, Len(s)) = p

\* Array.prototype.map
MapSeq(Op(_), s) == [k \in 1..Len(s) |-> Op(s[k])]

\* String.prototype.split on a one-character separator.
RECURSIVE SplitOn(_, _, _, _)
SplitOn(s, sep, k, cur) ==
  IF k > Len(s) THEN <<cur>>
  ELSE IF s[k] = sep THEN <<cur>> \o SplitOn(s, sep, k + 1, <<>>)
  ELSE SplitOn(s, sep, k + 1, Append(cur, s[k]))

\* Array.prototype.filter
RECURSIVE FilterSeq(_, _)
FilterSeq(Keep(_), s) ==
  IF s = <<>> THEN <<>>
  ELSE IF Keep(Head(s)) THEN <<Head(s)>> \o FilterSeq(Keep, Tail(s))
  ELSE FilterSeq(Keep, Tail(s))

(***************************************************************************)
(* splitCsvLine (part_002, lines 78-97)                                    *)
(***************************************************************************)
\* The for loop of splitCsvLine from index i (1-based) with the locals out,
\* cur, inQ; the value is what the function returns.
RECURSIVE SplitLoopNoEscape(_, _, _, _, _)
SplitLoopNoEscape(ln, i, out, cur, inQ) ==
  IF i > Len(ln) THEN Append(out, cur)
  ELSE IF ln[i] = QUOTE THEN SplitLoopNoEscape(ln, i + 1, out, cur, ~inQ)
  ELSE IF ln[i] = COMMA /\ ~inQ THEN SplitLoopNoEscape(ln, i + 1, Append(out, cur), <<>>, inQ)
  ELSE SplitLoopNoEscape(ln, i + 1, out, Append(cur, ln[i]), inQ)

RECURSIVE SplitLoop(_, _, _, _, _)
SplitLoop(ln, i, out, cur, inQ) ==
  IF i > Len(ln) THEN Append(out, cur)
  ELSE IF ln[i] = QUOTE THEN
    IF inQ /\ i + 1 <= Len(ln) /\ ln[i + 1] = QUOTE
      THEN SplitLoop(ln, i + 2, out, Append(cur, QUOTE), inQ)
      ELSE SplitLoop(ln, i + 1, out, cur, ~inQ)
  ELSE IF ln[i] = COMMA /\ ~inQ THEN SplitLoop(ln, i + 1, Append(out, cur), <<>>, inQ)
  ELSE SplitLoop(ln, i + 1, out, Append(cur, ln[i]), inQ)

\* A splitter that toggles on every quote (no escaped-quote case).
splitCsvLineNoEscape(ln) == SplitLoopNoEscape(ln, 1, <<>>, <<>>, FALSE)

splitCsvLine(ln) == SplitLoop(ln, 1, <<>>, <<>>, FALSE)

(***************************************************************************)
(* parseCsvText (part_002, lines 99-126)                                   *)
(***************************************************************************)
\* .replace(/\r\n/g, "\n").replace(/\r/g, "\n")
RECURSIVE NormalizeEol(_)
NormalizeEol(s) ==
  IF s = <<>> THEN <<>>
  ELSE IF Head(s) = CR /\ Len(s) >= 2 /\ s[2] = LF THEN <<LF>> \o NormalizeEol(Tail(Tail(s)))
  ELSE IF Head(s) = CR THEN <<LF>> \o NormalizeEol(Tail(s))
  ELSE <<Head(s)>> \o NormalizeEol(Tail(s))

NonBlank(s) == Len(Trim(s)) > 0

\* The lines parseCsvText keeps: split on "\n", whitespace-only lines dropped.
CsvLines(text) == FilterSeq(NonBlank, SplitOn(NormalizeEol(text), LF, 1, <<>>))

Digits == {"0", "1", "2", "3", "4", "5", "6", "7", "8", "9"}

\* raw !== "" && Number.isFinite(Number(raw)) && String(raw).trim() === String(Number(raw)),
\* for the raw fields the model's alphabets can build (digits, letters,
\* blanks): the trimmed text is a decimal numeral without a leading zero.
IsNumericCell(raw) ==
  LET t == Trim(raw) IN
    /\ raw # <<>>
    /\ t # <<>>
    /\ \A k \in 1..Len(t) : t[k] \in Digits
    /\ (Len(t) = 1 \/ t[1] # "0")

\* A cell of a row: the number (kept as its numeral) or the raw string.
Cell(raw) ==
  IF IsNumericCell(raw) THEN [type |-> "number", text |-> Trim(raw)]
  ELSE [type |-> "string", text |-> raw]

\* One row object: row[columns[c]] = parts[c] ?? "", a later duplicate of a
\* column name overwriting an earlier one, then the numeric conversion.
RowOf(columns, parts) ==
  [name \in {columns[c] : c \in 1..Len(columns)} |->
     LET c == CHOOSE c \in 1..Len(columns) :
                /\ columns[c] = name
                /\ \A d \in 1..Len(columns) : columns[d] = name => d <= c
     IN Cell(IF c <= Len(parts) THEN parts[c] ELSE <<>>)]

parseCsvText(text) ==
  LET lines == CsvLines(text) IN
    IF lines = <<>> THEN [columns |-> <<>>, rows |-> <<>>]
    ELSE LET columns == MapSeq(Trim, splitCsvLine(lines[1]))
         IN [columns |-> columns,
             rows |-> [k \in 1..(Len(lines) - 1) |-> RowOf(columns, splitCsvLine(lines[k + 1]))]]

(***************************************************************************)
(* The report server's walk of the file system (part_002, lines 59-76)     *)
(***************************************************************************)
\* A thrown exception is the result [ok |-> FALSE, error |-> message].
Throw(msg) == [ok |-> FALSE, error |-> msg]
Return(v)  == [ok |-> TRUE, value |-> v]

\* String.prototype.toLowerCase on the letters of ".CSV".
ToLowerChar(ch) ==
  CASE ch = "C" -> "c" [] ch = "S" -> "s" [] ch = "V" -> "v" [] OTHER -> ch

ToLower(s) == MapSeq(ToLowerChar, s)

DotCsv == <<".", "c", "s", "v">>

\* assertDirectory: fs.stat throws on a missing path.
assertDirectory(base) ==
  IF base.kind = "missing" THEN Throw("ENOENT: no such file or directory")
  ELSE IF base.kind # "dir" THEN Throw("baseDir is not a directory")
  ELSE Return(TRUE)

IsDirEntry(e) == e.kind = "dir"
EntryName(e) == e.name

listImmediateSubdirs(base) ==
  IF ~base.listOk THEN Throw("EACCES: permission denied, scandir")
  ELSE Return(MapSeq(EntryName, FilterSeq(IsDirEntry, base.entries)))

\* walkCsvFiles(dirPath, outFiles): the for loop over the entries from index
\* k; the value is outFiles after the loop, or the exception of a readdir.
RECURSIVE WalkLoop(_, _, _, _)
walkCsvFiles(dir, dirPath, outFiles) ==
  IF ~dir.listOk THEN Throw("EACCES: permission denied, scandir")
  ELSE WalkLoop(dir.entries, 1, dirPath, outFiles)

WalkLoop(entries, k, dirPath, outFiles) ==
  IF k > Len(entries) THEN Return(outFiles)
  ELSE LET e == entries[k]
           full == Append(dirPath, e.name)
       IN IF e.kind = "dir" THEN
            LET sub == walkCsvFiles(e, full, outFiles) IN
              IF sub.ok THEN WalkLoop(entries, k + 1, dirPath, sub.value) ELSE sub
          ELSE IF e.kind = "file" /\ EndsWith(ToLower(e.name), DotCsv) THEN
            WalkLoop(entries, k + 1, dirPath,
                     Append(outFiles, [path |-> full, text |-> e.text, readOk |-> e.readOk]))
          ELSE WalkLoop(entries, k + 1, dirPath, outFiles)

(***************************************************************************)
(* loadCombinedCsvs and the request boundary (part_002, lines 128-210)     *)
(***************************************************************************)
\* A column list that is appended to without the membership test of a Set.
SetAddAllNoDedup(colSet, columns) == colSet \o columns

\* colSet.add(c) for each column, on a Set kept in insertion order.
RECURSIVE SetAddAll(_, _)
SetAddAll(colSet, columns) ==
  IF columns = <<>> THEN colSet
  ELSE SetAddAll(IF \E k \in 1..Len(colSet) : colSet[k] = Head(columns)
                   THEN colSet ELSE Append(colSet, Head(columns)),
                 Tail(columns))

\* A merge loop that skips a file it cannot read.
RECURSIVE MergeLoopSkipUnreadable(_, _, _, _)
MergeLoopSkipUnreadable(csvFiles, k, colSet, allRows) ==
  IF k > Len(csvFiles) THEN Return([headers |-> colSet, rows |-> allRows])
  ELSE IF ~csvFiles[k].readOk THEN MergeLoopSkipUnreadable(csvFiles, k + 1, colSet, allRows)
  ELSE LET parsed == parseCsvText(csvFiles[k].text) IN
         MergeLoopSkipUnreadable(csvFiles, k + 1, SetAddAll(colSet, parsed.columns),
                                 allRows \o parsed.rows)

\* The for loop over csvFiles (lines 147-152) from index k.
RECURSIVE MergeLoop(_, _, _, _)
MergeLoop(csvFiles, k, colSet, allRows) ==
  IF k > Len(csvFiles) THEN Return([headers |-> colSet, rows |-> allRows])
  ELSE IF ~csvFiles[k].readOk THEN Throw("EACCES: permission denied, open")
  ELSE LET parsed == parseCsvText(csvFiles[k].text) IN
         MergeLoop(csvFiles, k + 1, SetAddAll(colSet, parsed.columns), allRows \o parsed.rows)

MergeSkippingUnreadable(csvFiles) == MergeLoopSkipUnreadable(csvFiles, 1, <<>>, <<>>)

MergeCsvFiles(csvFiles) == MergeLoop(csvFiles, 1, <<>>, <<>>)

\* A matcher that ignores the keyword.
MatchFoldersAll(subdirs, key) == subdirs

\* key ? subdirs.filter((d) => d.startsWith(key)) : subdirs
MatchFolders(subdirs, key) ==
  IF key # <<>> THEN LET Starts(d) == StartsWith(d, key) IN FilterSeq(Starts, subdirs)
  ELSE subdirs

\* The entry path.join(baseDir, dirName) names.
EntryNamed(base, dirName) ==
  base.entries[CHOOSE k \in 1..Len(base.entries) : base.entries[k].name = dirName]

\* The for loop over matchedFolders (lines 138-141) from index k.
RECURSIVE WalkFolders(_, _, _, _)
WalkFolders(base, matchedFolders, k, csvFiles) ==
  IF k > Len(matchedFolders) THEN Return(csvFiles)
  ELSE LET w == walkCsvFiles(EntryNamed(base, matchedFolders[k]), <<matchedFolders[k]>>, csvFiles)
       IN IF w.ok THEN WalkFolders(base, matchedFolders, k + 1, w.value) ELSE w

\* base is the directory the path baseDir names.
loadCombinedCsvs(base, baseDir, startKeyword) ==
  LET isDir == assertDirectory(base) IN
  IF ~isDir.ok THEN isDir ELSE
  LET subdirs == listImmediateSubdirs(base) IN
  IF ~subdirs.ok THEN subdirs ELSE
  LET key == Trim(startKeyword)
      matchedFolders == MatchFolders(subdirs.value, key)
  IN
  IF matchedFolders = <<>> THEN Throw("No subdirectories matched startKeyword") ELSE
  LET csvFiles == WalkFolders(base, matchedFolders, 1, <<>>) IN
  IF ~csvFiles.ok THEN csvFiles ELSE
  IF csvFiles.value = <<>> THEN Throw("No csv files found under matched subdirectories") ELSE
  LET merged == MergeCsvFiles(csvFiles.value) IN
  IF ~merged.ok THEN merged ELSE
  Return([headers |-> merged.value.headers,
          rows |-> merged.value.rows,
          meta |-> [baseDir |-> baseDir,
                    startKeyword |-> key,
                    matchedFolders |-> matchedFolders,
                    csvCount |-> Len(csvFiles.value),
                    rowCount |-> Len(merged.value.rows),
                    colCount |-> Len(merged.value.headers)]])

\* A JSON body field: a string value, or anything else (absent, a number).
StrVal(s) == [type |-> "string", s |-> s]
NonStr    == [type |-> "other", s |-> <<>>]

\* safeResolveBaseDir: the resolved path names the directory aggFs describes.
safeResolveBaseDir(baseDir) ==
  IF baseDir.type # "string" THEN Throw("baseDir must be a string")
  ELSE IF Trim(baseDir.s) = <<>> THEN Throw("baseDir is required")
  ELSE Return(Trim(baseDir.s))

\* handleApiReports: readJsonBody, safeResolveBaseDir, loadCombinedCsvs.
handleApiReports(req, base) ==
  IF ~req.jsonOk THEN Throw("Invalid JSON") ELSE
  LET baseDir == safeResolveBaseDir(req.baseDir) IN
  IF ~baseDir.ok THEN baseDir ELSE
  loadCombinedCsvs(base, baseDir.value,
                   IF req.startKeyword.type = "string" THEN req.startKeyword.s ELSE <<>>)

(***************************************************************************)
(* JSON text: JSON.parse and JSON.stringify(data, null, 2)                 *)
(***************************************************************************)
\* JSON values of the model: numbers (digit strings), the empty object and
\* arrays of values.
JNum(ds)    == [t |-> "num", v |-> ds]
JObj        == [t |-> "obj", v |-> <<>>]
JArr(items) == [t |-> "arr", v |-> items]

JDigits == {"1", "2"}

RECURSIVE SkipWs(_, _)
SkipWs(txt, i) == IF i <= Len(txt) /\ IsSpace(txt[i]) THEN SkipWs(txt, i + 1) ELSE i

RECURSIVE DigitsEnd(_, _)
DigitsEnd(txt, i) == IF i <= Len(txt) /\ txt[i] \in JDigits THEN DigitsEnd(txt, i + 1) ELSE i

NoParse == [ok |-> FALSE, v |-> JObj, next |-> 0]

\* Parse one value at index i (blanks skipped): [ok, v, next].
RECURSIVE ParseValue(_, _)
RECURSIVE ParseItems(_, _, _)
ParseValue(txt, i0) ==
  LET i == SkipWs(txt, i0) IN
    IF i > Len(txt) THEN NoParse
    ELSE IF txt[i] \in JDigits THEN
      [ok |-> TRUE, v |-> JNum(SubSeq(txt, i, DigitsEnd(txt, i) - 1)), next |-> DigitsEnd(txt, i)]
    ELSE IF txt[i] = "{" THEN
      LET j == SkipWs(txt, i + 1) IN
        IF j <= Len(txt) /\ txt[j] = "}" THEN [ok |-> TRUE, v |-> JObj, next |-> j + 1]
        ELSE NoParse
    ELSE IF txt[i] = "[" THEN
      LET j == SkipWs(txt, i + 1) IN
        IF j <= Len(txt) /\ txt[j] = "]" THEN [ok |-> TRUE, v |-> JArr(<<>>), next |-> j + 1]
        ELSE ParseItems(txt, j, <<>>)
    ELSE NoParse

\* The items of an array from index i, up to and including the "]".
ParseItems(txt, i, items) ==
  LET e == ParseValue(txt, i) IN
    IF ~e.ok THEN NoParse
    ELSE LET j == SkipWs(txt, e.next) IN
      IF j > Len(txt) THEN NoParse
      ELSE IF txt[j] = "]" THEN [ok |-> TRUE, v |-> JArr(Append(items, e.v)), next |-> j + 1]
      ELSE IF txt[j] = COMMA THEN ParseItems(txt, j + 1, Append(items, e.v))
      ELSE NoParse

\* JSON.parse: [ok, v]; ok is FALSE where JSON.parse throws a SyntaxError.
JSONparse(txt) ==
  LET e == ParseValue(txt, 1) IN
    IF e.ok /\ SkipWs(txt, e.next) > Len(txt) THEN [ok |-> TRUE, v |-> e.v]
    ELSE [ok |-> FALSE, v |-> JObj]

Indent(n) == [k \in 1..n |-> SP]

\* JSON.stringify(value, null, 2) at an indentation of ind blanks.
RECURSIVE Pretty(_, _)
RECURSIVE PrettyItems(_, _, _)
Pretty(val, ind) ==
  IF val.t = "num" THEN val.v
  ELSE IF val.t = "obj" THEN <<"{", "}">>
  ELSE IF val.v = <<>> THEN <<"[", "]">>
  ELSE <<"[", LF>> \o PrettyItems(val.v, 1, ind + 2) \o <<LF>> \o Indent(ind) \o <<"]">>

PrettyItems(items, k, ind) ==
  Indent(ind) \o Pretty(items[k], ind)
    \o (IF k < Len(items) THEN <<COMMA, LF>> \o PrettyItems(items, k + 1, ind) ELSE <<>>)

JSONstringify(val) == Pretty(val, 0)

\* Array.isArray
IsArray(val) == val.t = "arr"

\* body || "[]" and txt || "[]"
OrEmptyArray(txt) == IF txt = <<>> THEN <<"[", "]">> ELSE txt

(***************************************************************************)
(* Idle values of the parts a specification does not exercise              *)
(***************************************************************************)
SplitIdle == line = <<>> /\ fields = NotYet
AggIdle   == aggFs = NotYet /\ aggReq = NotYet /\ aggResp = <<>>
ColIdle   == flow = <<>> /\ csvText = <<>> /\ readPath = <<>> /\ colResp = <<>>
TaskIdle  == file = NoFile /\ file0 = NoFile /\ reqs = <<>> /\ crashed = FALSE /\ wrote = {}

(***************************************************************************)
(* Specification SpecSplit: splitCsvLine applied to bounded lines          *)
(***************************************************************************)
MaxLineLen == 4

SplitAlphabet == {"a", COMMA, QUOTE, SP}

\* The two lines of spec section 8:   a,"b,c",d   and   "he said ""hi"""
ExampleQuotedComma == <<"a", COMMA, QUOTE, "b", COMMA, "c", QUOTE, COMMA, "d">>
ExampleEscapedQuote ==
  <<QUOTE, "h", "e", SP, "s", "a", "i", "d", SP, QUOTE, QUOTE, "h", "i", QUOTE, QUOTE, QUOTE>>

SplitInputs == StringsUpTo(SplitAlphabet, MaxLineLen) \cup {ExampleQuotedComma, ExampleEscapedQuote}

InitSplit ==
  /\ line \in SplitInputs
  /\ fields = NotYet
  /\ impl = "report"
  /\ AggIdle /\ ColIdle /\ TaskIdle

CallSplitCsvLine ==
  /\ fields = NotYet
  /\ fields' = splitCsvLine(line)
  /\ UNCHANGED <<line, impl, aggVars, colVars, taskVars>>

NextSplit == CallSplitCsvLine

SpecSplit == InitSplit /\ [][NextSplit]_vars

\* The two-state scan of spec section 4.1, one character at a time: st.skip
\* marks the second quote of an escaped pair, already consumed.
ScanStep(st, ln, k) ==
  IF st.skip THEN [st EXCEPT !.skip = FALSE]
  ELSE IF ln[k] = QUOTE THEN
    IF st.q /\ k < Len(ln) /\ ln[k + 1] = QUOTE
      THEN [st EXCEPT !.cur = Append(st.cur, QUOTE), !.skip = TRUE]
      ELSE [st EXCEPT !.q = ~st.q]
  ELSE IF ln[k] = COMMA /\ ~st.q
    THEN [st EXCEPT !.out = Append(st.out, st.cur), !.cur = <<>>]
  ELSE [st EXCEPT !.cur = Append(st.cur, ln[k])]

RECURSIVE ScanUpTo(_, _)
ScanUpTo(ln, k) ==
  IF k = 0 THEN [out |-> <<>>, cur |-> <<>>, q |-> FALSE, skip |-> FALSE]
  ELSE ScanStep(ScanUpTo(ln, k - 1), ln, k)

TwoStateScan(ln) == LET st == ScanUpTo(ln, Len(ln)) IN Append(st.out, st.cur)

\* C4: splitCsvLine returns the fields of the two-state scan of section 4.1
\* for every line (the final field always emitted), and the two lines of
\* section 8 give a / b,c / d and he said "hi".
C4_SplitIsTwoStateScan ==
  fields # NotYet =>
    /\ fields = TwoStateScan(line)
    /\ Len(fields) >= 1
    /\ line = ExampleQuotedComma => fields = << <<"a">>, <<"b", COMMA, "c">>, <<"d">> >>
    /\ line = ExampleEscapedQuote =>
         fields = << <<"h", "e", SP, "s", "a", "i", "d", SP, QUOTE, "h", "i", QUOTE>> >>

\* An escaped quote inside a quoted field, a comma inside quotes and an
\* empty last field have all been split.
C4_Witness ==
  /\ fields # NotYet
  /\ line = <<QUOTE, QUOTE, QUOTE, QUOTE>>
  /\ fields = << <<QUOTE>> >>

(***************************************************************************)
(* Specification SpecAgg: one POST /api/reports on a bounded file system   *)
(***************************************************************************)
MaxBaseEntries == 2

TextXY    == <<"x", COMMA, "y", LF, "1", COMMA, "2">>
TextYZ    == <<"y", COMMA, SP, "z", CR, LF, "3", COMMA, "4", CR, LF, CR, LF, "0", "5">>
TextDup   == <<"x", COMMA, "x", LF, "7", COMMA, "8">>
TextBlank == <<SP, LF>>

CsvFile(name, text) == [kind |-> "file", name |-> name, text |-> text, readOk |-> TRUE]
Unreadable(name)    == [kind |-> "file", name |-> name, text |-> <<>>, readOk |-> FALSE]
Link(name)          == [kind |-> "link", name |-> name]
Dir(name, entries)  == [kind |-> "dir", name |-> name, listOk |-> TRUE, entries |-> entries]
NoListDir(name)     == [kind |-> "dir", name |-> name, listOk |-> FALSE, entries |-> <<>>]

NameA    == <<"a", ".", "c", "s", "v">>
NameB    == <<"b", ".", "C", "S", "V">>
NameC    == <<"c", ".", "c", "s", "v">>
NameTxt  == <<"n", ".", "t", "x", "t">>
NameSub  == <<"s">>

\* The contents a subdirectory of the base directory may have.
FolderContents ==
  { <<>>,
    <<CsvFile(NameA, TextXY)>>,
    <<CsvFile(NameTxt, TextXY), Dir(NameSub, <<CsvFile(NameB, TextYZ)>>)>>,
    <<CsvFile(NameA, TextDup), Link(NameC), CsvFile(NameB, TextBlank)>>,
    <<CsvFile(NameA, TextXY), Unreadable(NameC)>>,
    <<CsvFile(NameA, TextYZ), NoListDir(NameSub)>> }

FolderNames == { <<"p", "1">>, <<"p", "2">>, <<"o">> }

\* What the base directory may hold: subdirectories, one of them unlistable,
\* and a plain CSV file whose name starts like the folders'.
BaseEntryPool ==
  {Dir(n, c) : n \in FolderNames, c \in FolderContents}
    \cup {NoListDir(<<"p", "2">>), CsvFile(<<"p", ".", "c", "s", "v">>, TextXY)}

BaseEntrySeqs ==
  {es \in UNION {[1..k -> BaseEntryPool] : k \in 0..MaxBaseEntries} :
     \A i, j \in 1..Len(es) : i # j => es[i].name # es[j].name}

AggFileSystems ==
  {[kind |-> "dir", listOk |-> TRUE, entries |-> es] : es \in BaseEntrySeqs}
    \cup {[kind |-> "dir", listOk |-> FALSE, entries |-> <<>>],
          [kind |-> "file", listOk |-> FALSE, entries |-> <<>>],
          [kind |-> "missing", listOk |-> FALSE, entries |-> <<>>]}

BaseDirArg == StrVal(<<"/", "b">>)

AggRequests ==
  {[jsonOk |-> TRUE, baseDir |-> BaseDirArg, startKeyword |-> k] :
     k \in {StrVal(<<>>), StrVal(<<"p">>), StrVal(<<SP, "p", "1", SP>>), StrVal(<<"x">>), NonStr}}
    \cup {[jsonOk |-> FALSE, baseDir |-> NonStr, startKeyword |-> NonStr],
          [jsonOk |-> TRUE, baseDir |-> NonStr, startKeyword |-> NonStr],
          [jsonOk |-> TRUE, baseDir |-> StrVal(<<SP>>), startKeyword |-> StrVal(<<>>)]}

InitAgg ==
  /\ aggFs \in AggFileSystems
  /\ aggReq \in AggRequests
  /\ aggResp = <<>>
  /\ impl = "report"
  /\ SplitIdle /\ ColIdle /\ TaskIdle

\* handleRequest: route to handleApiReports; sendJson(200, {ok: true, ...out})
\* or, in the catch, sendJson(400, {ok: false, error}).
HandleReportRequest ==
  /\ aggResp = <<>>
  /\ LET out == handleApiReports(aggReq, aggFs) IN
       aggResp' = IF out.ok
                    THEN <<[status |-> 200, ok |-> TRUE, out |-> out.value]>>
                    ELSE <<[status |-> 400, ok |-> FALSE, error |-> out.error]>>
  /\ UNCHANGED <<aggFs, aggReq, impl, splitVars, colVars, taskVars>>

NextAgg == HandleReportRequest

SpecAgg == InitAgg /\ [][NextAgg]_vars

\* --- what the claims about the report say, stated on the file system ---
Range(seq) == {seq[k] : k \in 1..Len(seq)}

RECURSIVE Concat(_)
Concat(seqs) == IF seqs = <<>> THEN <<>> ELSE Head(seqs) \o Concat(Tail(seqs))

RECURSIVE SumSeq(_)
SumSeq(ns) == IF ns = <<>> THEN 0 ELSE Head(ns) + SumSeq(Tail(ns))

IsCsvName(name) == EndsWith(ToLower(name), DotCsv)

\* Every CSV file under a directory, depth first in listing order, whether
\* or not the directories and files on the way can be read.
RECURSIVE CsvUnder(_)
CsvUnder(dir) ==
  Concat([k \in 1..Len(dir.entries) |->
            LET e == dir.entries[k] IN
              IF e.kind = "dir" THEN CsvUnder(e)
              ELSE IF e.kind = "file" /\ IsCsvName(e.name) THEN <<e>>
              ELSE <<>>])

\* Some directory of the subtree cannot be listed.
RECURSIVE HasUnlistable(_)
HasUnlistable(dir) ==
  \/ ~dir.listOk
  \/ \E k \in 1..Len(dir.entries) : dir.entries[k].kind = "dir" /\ HasUnlistable(dir.entries[k])

ReqKeyword == IF aggReq.startKeyword.type = "string" THEN Trim(aggReq.startKeyword.s) ELSE <<>>

IsMatchedFolder(e) == e.kind = "dir" /\ (ReqKeyword = <<>> \/ StartsWith(e.name, ReqKeyword))

\* The matched folders and the CSV files under them, in discovery order.
ExpectedFolders == SelectSeq(aggFs.entries, IsMatchedFolder)
ExpectedFiles   == Concat(MapSeq(CsvUnder, ExpectedFolders))

ColumnsOf(f) == parseCsvText(f.text).columns
RowCountOf(f) == Len(parseCsvText(f.text).rows)

FirstIndex(seq, x) == CHOOSE k \in 1..Len(seq) : seq[k] = x /\ \A j \in 1..(k - 1) : seq[j] # x

Answered  == aggResp # <<>>
Succeeded == Answered /\ aggResp[1].ok

\* C1: on success, headers is the deduplicated first-seen-order union of the
\* column lists of all the CSV files under the matched folders, and
\* meta.colCount is its length.
C1_HeadersAreColumnUnion ==
  Succeeded =>
    LET out == aggResp[1].out
        headers == out.headers
        declared == Concat(MapSeq(ColumnsOf, ExpectedFiles))
    IN /\ \A i, j \in 1..Len(headers) : i # j => headers[i] # headers[j]
       /\ Range(headers) = Range(declared)
       /\ \A i, j \in 1..Len(headers) :
            i < j => FirstIndex(declared, headers[i]) < FirstIndex(declared, headers[j])
       /\ out.meta.colCount = Len(headers)

\* Files with columns [x,y] and [y,z] were merged into headers [x,y,z].
C1_Witness ==
  /\ Succeeded
  /\ aggResp[1].out.headers = << <<"x">>, <<"y">>, <<"z">> >>
  /\ aggResp[1].out.meta.csvCount = 2

\* A reason for which the aggregate cannot merge every file.
CannotAggregate ==
  \/ ~aggReq.jsonOk
  \/ aggReq.baseDir.type # "string" \/ Trim(aggReq.baseDir.s) = <<>>
  \/ aggFs.kind # "dir" \/ ~aggFs.listOk
  \/ ExpectedFolders = <<>>
  \/ ExpectedFiles = <<>>
  \/ \E k \in 1..Len(ExpectedFolders) : HasUnlistable(ExpectedFolders[k])
  \/ \E k \in 1..Len(ExpectedFiles) : ~ExpectedFiles[k].readOk

\* C2: the aggregate is all-or-nothing: at most one response; when a folder
\* or file is missing or unreadable the response is an error object without
\* headers or rows; a success carries every discovered file
\* (csvCount, rowCount).
C2_AllOrNothing ==
  /\ Len(aggResp) <= 1
  /\ Answered /\ CannotAggregate =>
       /\ ~aggResp[1].ok
       /\ aggResp[1].status = 400
       /\ DOMAIN aggResp[1] = {"status", "ok", "error"}
  /\ Answered /\ ~CannotAggregate => aggResp[1].ok
  /\ Succeeded =>
       LET out == aggResp[1].out IN
         /\ out.meta.csvCount = Len(ExpectedFiles)
         /\ out.meta.rowCount = Len(out.rows)
         /\ Len(out.rows) = SumSeq(MapSeq(RowCountOf, ExpectedFiles))

\* A folder with one readable and one unreadable CSV file was answered with
\* the read error.
C2_Witness ==
  /\ Answered
  /\ ~aggResp[1].ok
  /\ aggResp[1].error = "EACCES: permission denied, open"
  /\ \E k \in 1..Len(ExpectedFiles) : ExpectedFiles[k].readOk

\* C3: the reported matchedFolders are exactly the immediate subdirectories
\* whose name starts with the trimmed keyword (all of them for an empty
\* keyword), in listing order.
C3_MatchedFoldersExact ==
  Succeeded => aggResp[1].out.meta.matchedFolders = MapSeq(EntryName, ExpectedFolders)

\* The keyword p matched one folder and left aside a
\* folder with another name and a plain file with a matching name.
C3_Witness ==
  /\ Succeeded
  /\ aggReq.startKeyword = StrVal(<<"p">>)
  /\ aggResp[1].out.meta.matchedFolders = << <<"p", "1">> >>
  /\ \E k \in 1..Len(aggFs.entries) :
       aggFs.entries[k].kind = "file" /\ StartsWith(aggFs.entries[k].name, <<"p">>)

(***************************************************************************)
(* Task store: GET/PUT /api/tasks                                          *)
(*   src/router.js handleTasks (30-52), part_000 handleApiTasks (39-88)    *)
(***************************************************************************)
MaxRequests == 3

Response(status, body) == [status |-> status, body |-> body]
ErrorBody(msg) == [t |-> "error", v |-> msg]

\* A request record: its method and body, where its handler stands (pc), the
\* responses sent on it, and the file content when it was received.
NewRequest(method, body, pc, resp) ==
  [method |-> method, body |-> body, pc |-> pc, resp |-> resp, seen |-> file]

Pending(r, pc) == r \in 1..Len(reqs) /\ reqs[r].pc = pc /\ ~crashed

Finish(r, response) == [reqs EXCEPT ![r].pc = "done", ![r].resp = Append(@, response)]

\* GET: the handler calls fs.readFile and returns.
ReceiveGet ==
  /\ Len(reqs) < MaxRequests /\ ~crashed
  /\ reqs' = Append(reqs, NewRequest("GET", <<>>, "reading", <<>>))
  /\ UNCHANGED <<file, crashed, wrote, file0, impl, splitVars, aggVars, colVars>>

\* PUT: the handler registers the body listeners and returns.
ReceivePut(body) ==
  /\ Len(reqs) < MaxRequests /\ ~crashed
  /\ reqs' = Append(reqs, NewRequest("PUT", body, "body", <<>>))
  /\ UNCHANGED <<file, crashed, wrote, file0, impl, splitVars, aggVars, colVars>>

MethodNotAllowed == IF impl = "router" THEN "method not allowed" ELSE "Method not allowed"

\* Any other method: sendJson(res, 405, ...).
ReceiveOther ==
  /\ Len(reqs) < MaxRequests /\ ~crashed
  /\ reqs' = Append(reqs, NewRequest("POST", <<>>, "done",
                                     <<Response(405, ErrorBody(MethodNotAllowed))>>))
  /\ UNCHANGED <<file, crashed, wrote, file0, impl, splitVars, aggVars, colVars>>

\* router.js, lines 32-38: the readFile callback of GET. JSON.parse is called
\* in the callback with no try around it: a SyntaxError is an uncaught
\* exception, which ends the process with no response sent.
RouterGetCallback(r) ==
  /\ impl = "router" /\ Pending(r, "reading")
  /\ \E ioError \in {FALSE, file.exists} :
       IF ~file.exists THEN
         reqs' = Finish(r, Response(200, JArr(<<>>))) /\ crashed' = crashed
       ELSE IF ioError THEN
         reqs' = Finish(r, Response(500, ErrorBody("read fail"))) /\ crashed' = crashed
       ELSE LET parsed == JSONparse(OrEmptyArray(file.txt)) IN
         IF parsed.ok THEN reqs' = Finish(r, Response(200, parsed.v)) /\ crashed' = crashed
         ELSE reqs' = [reqs EXCEPT ![r].pc = "threw"] /\ crashed' = TRUE
  /\ UNCHANGED <<file, wrote, file0, impl, splitVars, aggVars, colVars>>

\* part_000, lines 41-58: the readFile callback of GET, JSON.parse in a try.
ServerGetCallback(r) ==
  /\ impl = "server" /\ Pending(r, "reading")
  /\ \E ioError \in {FALSE, file.exists} :
       IF ~file.exists THEN reqs' = Finish(r, Response(200, JArr(<<>>)))
       ELSE IF ioError THEN
         reqs' = Finish(r, Response(500, ErrorBody("Failed to read projectTasks.json")))
       ELSE LET parsed == JSONparse(OrEmptyArray(file.txt)) IN
         IF parsed.ok THEN reqs' = Finish(r, Response(200, parsed.v))
         ELSE reqs' = Finish(r, Response(500, ErrorBody("Invalid JSON in projectTasks.json")))
  /\ UNCHANGED <<file, crashed, wrote, file0, impl, splitVars, aggVars, colVars>>

\* A PUT that writes whatever parses.
PutDecisionNoArrayCheck(body) ==
  LET parsed == JSONparse(OrEmptyArray(body)) IN
    IF ~parsed.ok THEN "invalid json" ELSE "write"

\* router.js lines 42-46, part_000 lines 68-73: JSON.parse(body || "[]") in a
\* try, then Array.isArray, then fs.writeFile.
PutDecision(body) ==
  LET parsed == JSONparse(OrEmptyArray(body)) IN
    IF ~parsed.ok THEN "invalid json"
    ELSE IF ~IsArray(parsed.v) THEN "must be array"
    ELSE "write"

\* The "end" event of the request body, in either server.
PutBodyEnd(r, invalidJson, notArray) ==
  /\ Pending(r, "body")
  /\ LET d == PutDecision(reqs[r].body) IN
       IF d = "invalid json" THEN
         reqs' = Finish(r, Response(400, ErrorBody(invalidJson))) /\ wrote' = wrote
       ELSE IF d = "must be array" THEN
         reqs' = Finish(r, Response(400, ErrorBody(notArray))) /\ wrote' = wrote
       ELSE reqs' = [reqs EXCEPT ![r].pc = "open"] /\ wrote' = wrote \cup {r}
  /\ UNCHANGED <<file, crashed, file0, impl, splitVars, aggVars, colVars>>

RouterPutBodyEnd(r) ==
  impl = "router" /\ PutBodyEnd(r, "invalid json", "must be array")

ServerPutBodyEnd(r) ==
  impl = "server" /\ PutBodyEnd(r, "Invalid JSON in request body", "Body must be an array")

\* fs.writeFile opens with flag "w": the file is created or truncated.
ContentAfterOpen(content) == FileOf(<<>>)

\* Writing data at offset 0 of the open file: bytes beyond it stay.
ContentAfterWrite(content, data) ==
  FileOf(data \o SubSeq(content.txt, Len(data) + 1, Len(content.txt)))

WriteFailMessage == IF impl = "router" THEN "write fail" ELSE "Failed to write projectTasks.json"

\* A write callback that ignores its error argument.
WriteFailedAnswersOk(r) == Finish(r, Response(200, [t |-> "ok", v |-> TRUE]))

\* The writeFile callback with an error: sendJson(res, 500, ...).
WriteFailed(r) == Finish(r, Response(500, ErrorBody(WriteFailMessage)))

\* fs.writeFile, first step: the open, which fails (the callback answers 500)
\* or truncates the file.
WriteOpen(r) ==
  /\ Pending(r, "open")
  /\ \E ioError \in BOOLEAN :
       IF ioError THEN
         reqs' = WriteFailed(r) /\ file' = file
       ELSE reqs' = [reqs EXCEPT ![r].pc = "write"] /\ file' = ContentAfterOpen(file)
  /\ UNCHANGED <<crashed, wrote, file0, impl, splitVars, aggVars, colVars>>

\* fs.writeFile, second step: the data is written and the callback answers
\* 200 {ok: true}.
WriteData(r) ==
  /\ Pending(r, "write")
  /\ LET data == JSONparse(OrEmptyArray(reqs[r].body)).v IN
       file' = ContentAfterWrite(file, JSONstringify(data))
  /\ reqs' = Finish(r, Response(200, [t |-> "ok", v |-> TRUE]))
  /\ UNCHANGED <<crashed, wrote, file0, impl, splitVars, aggVars, colVars>>

(***************************************************************************)
(* Specifications SpecTasks (requests overlap) and SpecSeq (they do not)   *)
(***************************************************************************)
One == JNum(<<"1">>)
Two == JNum(<<"2">>)

\* Request bodies: [1,2]  [2]  []  the empty body  {}  and the cut-off  [1,
PutBodies ==
  { <<"[", "1", COMMA, "2", "]">>, <<"[", "2", "]">>, <<"[", "]">>, <<>>,
    <<"{", "}">>, <<"[", "1", COMMA>> }

\* projectTasks.json at startup: absent, empty, [1] as the server writes it,
\* or text that is not JSON.
InitialFiles ==
  { NoFile, FileOf(<<>>), FileOf(JSONstringify(JArr(<<One>>))), FileOf(<<"[", "1">>) }

InitTasks ==
  /\ impl \in {"router", "server"}
  /\ file \in InitialFiles
  /\ file0 = file
  /\ reqs = <<>>
  /\ crashed = FALSE
  /\ wrote = {}
  /\ SplitIdle /\ AggIdle /\ ColIdle

TaskStep ==
  \E r \in 1..MaxRequests :
    \/ RouterGetCallback(r)
    \/ ServerGetCallback(r)
    \/ RouterPutBodyEnd(r)
    \/ ServerPutBodyEnd(r)
    \/ WriteOpen(r)
    \/ WriteData(r)

NextTasks ==
  \/ ReceiveGet
  \/ \E body \in PutBodies : ReceivePut(body)
  \/ ReceiveOther
  \/ TaskStep

SpecTasks == InitTasks /\ [][NextTasks]_vars

\* No request is in flight.
AllAnswered == \A r \in 1..Len(reqs) : reqs[r].pc = "done"

NextSeq ==
  \/ AllAnswered /\ ReceiveGet
  \/ AllAnswered /\ \E body \in PutBodies : ReceivePut(body)
  \/ AllAnswered /\ ReceiveOther
  \/ TaskStep

SpecSeq == InitTasks /\ [][NextSeq]_vars

\* --- what the claims about the task store say ---
IsGet(r) == reqs[r].method = "GET"
IsPut(r) == reqs[r].method = "PUT"
HandlerEnded(r) == reqs[r].pc \in {"done", "threw"}
Answer(r) == reqs[r].resp[1]

\* The body is text that parses to a JSON array.
IsArrayText(body) == JSONparse(body).ok /\ JSONparse(body).v.t = "arr"

\* C5: every request whose handler has run to its end has received exactly
\* one response, a success payload or an error object; a stored document
\* that is not valid JSON is answered with an error.
C5_ExactlyOneResponse ==
  \A r \in 1..Len(reqs) :
    HandlerEnded(r) =>
      /\ Len(reqs[r].resp) = 1
      /\ Answer(r).status \in {200, 400, 405, 500}

\* C6 as stated: a PUT whose payload is not a JSON array (a non-array value
\* or unparseable text) never starts a write, is answered 400 and leaves
\* the document as it was when the request arrived.
C6_NonArrayRejected ==
  \A r \in 1..Len(reqs) :
    IsPut(r) /\ ~IsArrayText(reqs[r].body) =>
      /\ r \notin wrote
      /\ reqs[r].pc \in {"body", "done"}
      /\ reqs[r].pc = "done" => Answer(r).status = 400
      /\ r = Len(reqs) => file = reqs[r].seen

\* C6 amended: the same for every non-empty payload that is not a JSON
\* array; the empty body is read as [] and replaces the document.
C6_NonEmptyNonArrayRejected ==
  \A r \in 1..Len(reqs) :
    IsPut(r) /\ reqs[r].body # <<>> /\ ~IsArrayText(reqs[r].body) =>
      /\ r \notin wrote
      /\ reqs[r].pc \in {"body", "done"}
      /\ reqs[r].pc = "done" => Answer(r).status = 400
      /\ r = Len(reqs) => file = reqs[r].seen

\* After a replace that succeeded, a PUT of {} was answered 400 and the
\* document still holds the replaced array.
C6_Witness ==
  \E r \in 1..Len(reqs) :
    /\ IsPut(r) /\ reqs[r].body = <<"{", "}">>
    /\ reqs[r].pc = "done" /\ Answer(r).status = 400
    /\ r = Len(reqs)
    /\ file = FileOf(JSONstringify(JArr(<<Two>>)))

\* The complete documents a reader may see: the one stored at startup (an
\* absent or empty document reads as []) and the payload of every replace.
CompleteArrays ==
  (IF ~file0.exists THEN {JArr(<<>>)}
   ELSE IF JSONparse(OrEmptyArray(file0.txt)).ok THEN {JSONparse(OrEmptyArray(file0.txt)).v}
   ELSE {})
    \cup {JSONparse(OrEmptyArray(reqs[w].body)).v : w \in wrote}

CompleteFiles == {file0} \cup {FileOf(JSONstringify(JSONparse(OrEmptyArray(reqs[w].body)).v)) : w \in wrote}

\* The document at startup was absent or held JSON.
StartedValid == ~file0.exists \/ JSONparse(OrEmptyArray(file0.txt)).ok

WriteInProgress == \E r \in 1..Len(reqs) : reqs[r].pc \in {"open", "write"}

\* C7: under any interleaving each replace is atomic: a GET that succeeds
\* returns a complete array (the one stored before some replace or the one
\* it wrote), and once no write is in progress the stored content is one
\* complete document, never a mix of two payloads.
C7_ReplaceIsAtomic ==
  StartedValid =>
  /\ \A r \in 1..Len(reqs) :
       IsGet(r) /\ reqs[r].pc = "done" /\ Answer(r).status = 200 =>
         Answer(r).body \in CompleteArrays
  /\ ~WriteInProgress => file \in CompleteFiles

\* The replaces before request r that were answered 200, and the array the
\* latest of them passed.
OkPutsBefore(r) == {w \in 1..(r - 1) : IsPut(w) /\ Answer(w).status = 200}
LatestOkPut(r) == CHOOSE w \in OkPutsBefore(r) : \A u \in OkPutsBefore(r) : u <= w
ArrayPassed(w) == JSONparse(OrEmptyArray(reqs[w].body)).v

ReadFailure == {ErrorBody("read fail"), ErrorBody("Failed to read projectTasks.json")}

SLASH == "/"

\* __dirname of the server and path.join(__dirname, "data").
RootDir == <<SLASH, "r">>
DataDir == RootDir \o <<SLASH, "d", "a", "t", "a">>

RECURSIVE JoinWith(_, _)
JoinWith(segs, sep) ==
  IF segs = <<>> THEN <<>>
  ELSE IF Len(segs) = 1 THEN segs[1]
  ELSE segs[1] \o <<sep>> \o JoinWith(Tail(segs), sep)

\* The segments of an absolute path with "", "." and ".." resolved; ".."
\* at the root stays at the root.
RECURSIVE ResolveSegments(_, _)
ResolveSegments(segs, acc) ==
  IF segs = <<>> THEN acc
  ELSE IF Head(segs) = <<>> \/ Head(segs) = <<".">> THEN ResolveSegments(Tail(segs), acc)
  ELSE IF Head(segs) = <<".", ".">> THEN
    ResolveSegments(Tail(segs), IF acc = <<>> THEN acc ELSE SubSeq(acc, 1, Len(acc) - 1))
  ELSE ResolveSegments(Tail(segs), Append(acc, Head(segs)))

\* path.normalize of an absolute POSIX path that does not end in a slash.
PathNormalize(path) == <<SLASH>> \o JoinWith(ResolveSegments(SplitOn(path, SLASH, 1, <<>>), <<>>), SLASH)

\* path.join(a, b) == path.normalize(a + "/" + b)
PathJoin(a, b) == PathNormalize(a \o <<SLASH>> \o b)

\* The . of a JavaScript regular expression: no line terminator.
NoLineBreak(s) == \A k \in 1..Len(s) : s[k] \notin {LF, CR}

\* s.replace(/^"(.*)"$/, "$1")
StripQuotes(s) ==
  IF Len(s) >= 2 /\ s[1] = QUOTE /\ s[Len(s)] = QUOTE /\ NoLineBreak(SubSeq(s, 2, Len(s) - 1))
    THEN SubSeq(s, 2, Len(s) - 1)
    ELSE s

\* router.js parseCsvHeader: the for loop from index i, then if (cur) push,
\* then the map over the fields.
RECURSIVE RouterHeaderLoop(_, _, _, _, _)
RouterHeaderLoop(ln, i, out, cur, q) ==
  IF i > Len(ln) THEN (IF cur # <<>> THEN Append(out, Trim(cur)) ELSE out)
  ELSE IF ln[i] = QUOTE THEN RouterHeaderLoop(ln, i + 1, out, cur, ~q)
  ELSE IF ln[i] = COMMA /\ ~q THEN RouterHeaderLoop(ln, i + 1, Append(out, Trim(cur)), <<>>, q)
  ELSE RouterHeaderLoop(ln, i + 1, out, Append(cur, ln[i]), q)

RouterParseCsvHeader(ln) == MapSeq(StripQuotes, RouterHeaderLoop(ln, 1, <<>>, <<>>, FALSE))

\* part_000 parseCsvHeader: trim and strip at each push.
RECURSIVE ServerHeaderLoop(_, _, _, _, _)
ServerHeaderLoop(ln, i, result, current, inQuotes) ==
  IF i > Len(ln) THEN
    (IF Len(current) # 0 THEN Append(result, StripQuotes(Trim(current))) ELSE result)
  ELSE IF ln[i] = QUOTE THEN ServerHeaderLoop(ln, i + 1, result, current, ~inQuotes)
  ELSE IF ln[i] = COMMA /\ ~inQuotes THEN
    ServerHeaderLoop(ln, i + 1, Append(result, StripQuotes(Trim(current))), <<>>, inQuotes)
  ELSE ServerHeaderLoop(ln, i + 1, result, Append(current, ln[i]), inQuotes)

ServerParseCsvHeader(ln) == ServerHeaderLoop(ln, 1, <<>>, <<>>, FALSE)

\* One piece of a split on "\n", without the "\r" of a "\r\n" before it.
DropCr(piece) ==
  IF piece # <<>> /\ piece[Len(piece)] = CR THEN SubSeq(piece, 1, Len(piece) - 1) ELSE piece

\* txt.split(/\r?\n/): only the last piece is not followed by a separator.
SplitLines(txt) ==
  LET pieces == SplitOn(txt, LF, 1, <<>>) IN
    [k \in 1..Len(pieces) |-> IF k < Len(pieces) THEN DropCr(pieces[k]) ELSE pieces[k]]

\* The files of the model's disk: data/x.csv, and two outside of data/.
SecretText == <<"s", COMMA, "k">>
InsideFile  == DataDir \o <<SLASH, "x">> \o DotCsv
SiblingFile == RootDir \o <<SLASH, "d", "a", "t", "a", "x", SLASH, "x">> \o DotCsv
ParentFile  == RootDir \o <<SLASH, "x">> \o DotCsv

FileExists(path) == path \in {InsideFile, SiblingFile, ParentFile}
FileText(path) == IF path = InsideFile THEN csvText ELSE SecretText

\* The readFile callback of router.js handleColumns (70-75).
RouterColumnsCallback(path, ioError) ==
  IF ~FileExists(path) THEN Response(404, ErrorBody("not found"))
  ELSE IF ioError THEN Response(500, ErrorBody("read fail"))
  ELSE LET nonBlank == FilterSeq(NonBlank, SplitLines(FileText(path))) IN
    Response(200, IF nonBlank # <<>> THEN RouterParseCsvHeader(nonBlank[1]) ELSE <<>>)

\* router.js handleColumns (64-76), for a GET.
RouterHandleColumns ==
  /\ impl = "router" /\ colResp = <<>>
  /\ IF flow = <<>> THEN
       /\ colResp' = <<Response(400, ErrorBody("missing flow"))>>
       /\ readPath' = readPath
     ELSE LET path == PathJoin(DataDir, flow \o DotCsv) IN
       /\ readPath' = Append(readPath, path)
       /\ \E ioError \in {FALSE, FileExists(path)} :
            colResp' = <<RouterColumnsCallback(path, ioError)>>
  /\ UNCHANGED <<flow, csvText, impl, splitVars, aggVars, taskVars>>

\* The readFile callback of part_000 handleApiColumns (157-177).
ServerColumnsCallback(path, ioError) ==
  IF ~FileExists(path) THEN Response(404, ErrorBody("CSV file not found for flow"))
  ELSE IF ioError THEN Response(500, ErrorBody("Failed to read CSV file"))
  ELSE LET lines == FilterSeq(NonBlank, MapSeq(Trim, SplitLines(FileText(path)))) IN
    Response(200, IF lines # <<>> THEN ServerParseCsvHeader(lines[1]) ELSE <<>>)

\* part_000 handleApiColumns (141-178), for a GET.
ServerHandleColumns ==
  /\ impl = "server" /\ colResp = <<>>
  /\ IF flow = <<>> THEN
       /\ colResp' = <<Response(400, ErrorBody("Missing flow query parameter"))>>
       /\ readPath' = readPath
     ELSE LET csvPath == PathJoin(DataDir, flow \o DotCsv)
              safePath == PathNormalize(csvPath)
          IN IF ~StartsWith(safePath, DataDir) THEN
               /\ colResp' = <<Response(400, ErrorBody("Invalid flow name"))>>
               /\ readPath' = readPath
             ELSE
               /\ readPath' = Append(readPath, safePath)
               /\ \E ioError \in {FALSE, FileExists(safePath)} :
                    colResp' = <<ServerColumnsCallback(safePath, ioError)>>
  /\ UNCHANGED <<flow, csvText, impl, splitVars, aggVars, taskVars>>

(***************************************************************************)
(* Specification SpecColumns: one GET /api/columns                         *)
(***************************************************************************)
MaxFlowSegs == 3
MaxTextLen == 3

FlowSegments == { <<".", ".">>, <<".">>, <<>>, <<"x">>, <<"d", "a", "t", "a">>, <<"d", "a", "t", "a", "x">> }

\* Flow names: up to MaxFlowSegs segments joined by slashes.
Flows == {JoinWith(segs, SLASH) : segs \in UNION {[1..k -> FlowSegments] : k \in 1..MaxFlowSegs}}

ColumnTexts == StringsUpTo({"a", COMMA, QUOTE, SP, LF, CR}, MaxTextLen)

DefaultText == <<"a", COMMA, "b">>

InitColumns ==
  /\ impl \in {"router", "server"}
  /\ \/ flow \in Flows /\ csvText = DefaultText
     \/ flow = <<"x">> /\ csvText \in ColumnTexts
  /\ readPath = <<>>
  /\ colResp = <<>>
  /\ SplitIdle /\ AggIdle /\ TaskIdle

NextColumns == RouterHandleColumns \/ ServerHandleColumns

SpecColumns == InitColumns /\ [][NextColumns]_vars

\* --- what the claims about the column inspection say ---
\* The first non-empty line of a text, if it has one.
NonEmptyLines(txt) == FilterSeq(NonBlank, SplitLines(txt))

\* C8: for an existing flow file, getColumns returns exactly the fields
\* splitCsvLine yields for the file's first non-empty line (no fields when
\* there is no such line).
C8_ColumnsAreSplitCsvLine ==
  colResp # <<>> /\ colResp[1].status = 200 /\ readPath = <<InsideFile>> =>
    colResp[1].body =
      IF NonEmptyLines(csvText) = <<>> THEN <<>> ELSE splitCsvLine(NonEmptyLines(csvText)[1])

\* C9: every file that is read lies inside the data directory: a flow name
\* whose path escapes it is rejected.
C9_ReadsStayInDataDir ==
  \A k \in 1..Len(readPath) :
    FileExists(readPath[k]) => StartsWith(readPath[k], DataDir \o <<SLASH>>)

====
